---------------------------- MODULE Spec2Model ----------------------------
(***************************************************************************)
(* A model of plaso's lib/pfile.py: the filesystem cache                   *)
(* (FilesystemCache), the file-like handlers (PlasoFile and its            *)
(* subclasses) and the recursive opener (OpenPFile).                       *)
(*                                                                         *)
(* The specifications of the module, one per way the program is used:      *)
(*   SpecCache     FilesystemCache.Open called from several threads        *)
(*   SpecCacheSeq  FilesystemCache.Open called by one caller at a time     *)
(*   SpecHandler   read / seek / tell / close on one handler               *)
(*   SpecResolve   OpenPFile walking a chain of nested path specs          *)
(*   SpecDeep      OpenPFile walking a long chain of GZIP files            *)
(*   SpecUse       OpenPFile, then reads, seeks and closes by the caller   *)
(*   SpecStat      TskFile.Stat on a file and reads of what it returned    *)
(*   SpecStats     assignments to and reads of a Stats object              *)
(*   SpecZipLarge  ZipFile.read of all that is left of a large member      *)
(*   SpecTar       read / readline / seek / tell on a TAR handler          *)
(***************************************************************************)
EXTENDS Integers, Sequences, FiniteSets, TLC

(***************************************************************************)
(* Bounds of the model.                                                    *)
(***************************************************************************)
NumThreads == 2

MaxCalls == 2

(***************************************************************************)
(* Part A.  FilesystemCache                                                *)
(***************************************************************************)
VARIABLES
  cached_filesystems,  \* FilesystemCache.cached_filesystems: fs_hash -> container
  pc,                  \* per thread: where it is inside FilesystemCache.Open
  args,                \* per thread: <<path, offset, store_nr>> of its call
  fs,                  \* per thread: the local variable fs of Open
  ret,                 \* per thread: what its last call returned (None if nothing)
  open_count,          \* per argument triple: completed OpenTskImage/OpenVssImage
  fail_count,          \* per argument triple: opens that raised
  next_obj,            \* identity given to the next FilesystemContainer built
  calls,               \* number of calls of Open made so far
  cache_before         \* per thread: cached_filesystems when its call began

cacheVars == <<cached_filesystems, pc, args, fs, ret, open_count, fail_count,
               next_obj, calls, cache_before>>

VARIABLES
  kind,     \* the handler's class
  content,  \* the bytes of the file the handler was opened on
  h,        \* the handler's attributes: fh, the position of fh, offset, buffer
  life,     \* "new", "open" or "closed"
  last,     \* the last call made on the handler and what it returned
  prev      \* the call made before the last one, when the last one is a read

handlerVars == <<kind, content, h, life, last, prev>>

VARIABLES
  chain,     \* the path specs reached so far, the root first
  handlers,  \* the handlers constructed and opened so far, outermost first
  rpc,       \* "call": inside OpenPFile; "returned"; "raised"
  orig,      \* the argument orig of the current call: a position in chain, 0 for None
  outcome,   \* what OpenPFile returned or raised
  closed     \* the handlers the caller called close() on

resolveVars == <<chain, handlers, rpc, orig, outcome, closed>>

VARIABLES
  meta,      \* info.meta of the file a TskFile is open on, or None
  tsk_fh,    \* whether the TskFile has a file handle
  fs_type,   \* str(self._fs.info.ftype)
  st,        \* the attributes of a Stats object
  stat_out,  \* "none": Stat not called; "returned"; or the exception raised
  last_read, \* the last read of an attribute of the Stats object
  assigned,  \* the assignments made to the Stats object by its user
  sets       \* number of assignments made by the user

statVars == <<meta, tsk_fh, fs_type, st, stat_out, last_read, assigned, sets>>

VARIABLES
  zip_size,    \* ZipFile.size of a large member: its uncompressed size
  zip_offset,  \* ZipFile.offset of the handler open on it
  zip_log      \* the last read(size=None) made on it

largeVars == <<zip_size, zip_offset, zip_log>>

VARIABLES
  delivered,  \* what read and readline returned since Open or the last seek
  origin      \* where in the member that run of reads began

tarVars == <<delivered, origin>>

Threads == 1..NumThreads

\* Python's None.
None == [none |-> TRUE]

\* Strings are sequences of one-character strings.
Paths == { <<"a">>, <<"a", ":", "0">> }

Offsets == {0, 1}

StoreNrs == {-1, 0, 1}

ArgSet == Paths \X Offsets \X StoreNrs

DigitChar(d) ==
  CASE d = 0 -> "0" [] d = 1 -> "1" [] d = 2 -> "2" [] d = 3 -> "3"
    [] d = 4 -> "4" [] d = 5 -> "5" [] d = 6 -> "6" [] d = 7 -> "7"
    [] d = 8 -> "8" [] d = 9 -> "9"

RECURSIVE NatStr(_)
NatStr(n) ==
  IF n < 10 THEN <<DigitChar(n)>>
  ELSE NatStr(n \div 10) \o <<DigitChar(n % 10)>>

\* The %d conversion of an integer.
IntStr(n) == IF n < 0 THEN <<"-">> \o NatStr(-n) ELSE NatStr(n)

\* A cache key that leaves the store number out.
FsHashNoStore(path, offset, store_nr) ==
  path \o <<":">> \o IntStr(offset)

\* fs_hash = u'%s:%d:%d' % (path, offset, store_nr)
FsHash(path, offset, store_nr) ==
  path \o <<":">> \o IntStr(offset) \o <<":">> \o IntStr(store_nr)

KeyOf(a) == FsHash(a[1], a[2], a[3])

\* FilesystemContainer(fs, img, path, offset, volume, store_nr); id stands for
\* the identity of the fs and img objects it holds.
FilesystemContainer(id, path, offset, volume, store_nr) ==
  [id |-> id, path |-> path, offset |-> offset, volume |-> volume,
   store_nr |-> store_nr]

\* OpenTskImage: FilesystemContainer(fs, img, path, offset).
OpenTskImage(id, path, offset) ==
  FilesystemContainer(id, path, offset, FALSE, -1)

\* OpenVssImage: FilesystemContainer(fs, img, path, offset, volume, store_nr).
OpenVssImage(id, path, store_nr, offset) ==
  FilesystemContainer(id, path, offset, TRUE, store_nr)

InFlight(t) == pc[t] \in {"check", "open", "store"}

\* A thread enters FilesystemCache.Open(path, offset, store_nr).
Call(t, a) ==
  /\ pc[t] \in {"idle", "done", "failed"}
  /\ calls < MaxCalls
  /\ calls' = calls + 1
  /\ pc' = [pc EXCEPT ![t] = "check"]
  /\ args' = [args EXCEPT ![t] = a]
  /\ ret' = [ret EXCEPT ![t] = None]
  /\ fs' = [fs EXCEPT ![t] = None]
  /\ cache_before' = [cache_before EXCEPT ![t] = cached_filesystems]
  /\ UNCHANGED <<cached_filesystems, open_count, fail_count, next_obj>>
  /\ UNCHANGED <<handlerVars, resolveVars, statVars, largeVars, tarVars>>

\* if fs_hash in cls.cached_filesystems: return cls.cached_filesystems[fs_hash]
Lookup(t) ==
  /\ pc[t] = "check"
  /\ IF KeyOf(args[t]) \in DOMAIN cached_filesystems
       THEN /\ ret' = [ret EXCEPT ![t] = cached_filesystems[KeyOf(args[t])]]
            /\ pc' = [pc EXCEPT ![t] = "done"]
       ELSE /\ pc' = [pc EXCEPT ![t] = "open"]
            /\ ret' = ret
  /\ UNCHANGED <<cached_filesystems, args, fs, open_count, fail_count,
                 next_obj, calls, cache_before>>
  /\ UNCHANGED <<handlerVars, resolveVars, statVars, largeVars, tarVars>>

\* fs = cls.OpenVssImage(...) if store_nr >= 0 else cls.OpenTskImage(...),
\* the open succeeding.
OpenImage(t) ==
  /\ pc[t] = "open"
  /\ fs' = [fs EXCEPT ![t] =
              IF args[t][3] >= 0
                THEN OpenVssImage(next_obj, args[t][1], args[t][3], args[t][2])
                ELSE OpenTskImage(next_obj, args[t][1], args[t][2])]
  /\ next_obj' = next_obj + 1
  /\ open_count' = [open_count EXCEPT ![args[t]] = @ + 1]
  /\ pc' = [pc EXCEPT ![t] = "store"]
  /\ UNCHANGED <<cached_filesystems, args, ret, fail_count, calls, cache_before>>
  /\ UNCHANGED <<handlerVars, resolveVars, statVars, largeVars, tarVars>>

\* A failed open that leaves a placeholder entry behind.
OpenFailPoison(t) ==
  /\ pc[t] = "open"
  /\ fail_count' = [fail_count EXCEPT ![args[t]] = @ + 1]
  /\ pc' = [pc EXCEPT ![t] = "failed"]
  /\ cached_filesystems' =
       [k \in DOMAIN cached_filesystems \cup {KeyOf(args[t])} |->
          IF k = KeyOf(args[t]) THEN None ELSE cached_filesystems[k]]
  /\ UNCHANGED <<args, fs, ret, open_count, next_obj, calls, cache_before>>
  /\ UNCHANGED <<handlerVars, resolveVars, statVars, largeVars, tarVars>>

\* The same two calls, the open raising: the exception leaves Open before
\* the assignment to cached_filesystems.
OpenFail(t) ==
  /\ pc[t] = "open"
  /\ fail_count' = [fail_count EXCEPT ![args[t]] = @ + 1]
  /\ pc' = [pc EXCEPT ![t] = "failed"]
  /\ UNCHANGED <<cached_filesystems, args, fs, ret, open_count, next_obj,
                 calls, cache_before>>
  /\ UNCHANGED <<handlerVars, resolveVars, statVars, largeVars, tarVars>>

\* cls.cached_filesystems[fs_hash] = fs; return fs
Store(t) ==
  /\ pc[t] = "store"
  /\ cached_filesystems' =
       [k \in DOMAIN cached_filesystems \cup {KeyOf(args[t])} |->
          IF k = KeyOf(args[t]) THEN fs[t] ELSE cached_filesystems[k]]
  /\ ret' = [ret EXCEPT ![t] = fs[t]]
  /\ pc' = [pc EXCEPT ![t] = "done"]
  /\ UNCHANGED <<args, fs, open_count, fail_count, next_obj, calls, cache_before>>
  /\ UNCHANGED <<handlerVars, resolveVars, statVars, largeVars, tarVars>>

\* cached_filesystems = {} when the class is created.
InitCache ==
  /\ cached_filesystems = <<>>
  /\ pc = [t \in Threads |-> "idle"]
  /\ args = [t \in Threads |-> <<<<"a">>, 0, -1>>]
  /\ fs = [t \in Threads |-> None]
  /\ ret = [t \in Threads |-> None]
  /\ open_count = [a \in ArgSet |-> 0]
  /\ fail_count = [a \in ArgSet |-> 0]
  /\ next_obj = 1
  /\ calls = 0
  /\ cache_before = [t \in Threads |-> <<>>]


(***************************************************************************)
(* Part B.  One handler: PlasoFile and its subclasses                      *)
(***************************************************************************)
MaxSize == 3

MaxOver == 1

\* size = min(self.size - self.offset, 1024 * 1024 * 24)
ZipReadCeiling == 25165824

Kinds == {"OS", "TSK", "VSS", "ZIP", "GZIP", "BZ2", "TAR"}

\* Classes that keep PlasoFile's read, seek, tell and close.
BaseKinds == {"OS", "TSK", "VSS", "BZ2"}

\* The size argument None of read().
NoSize == -1000

Min(a, b) == IF a < b THEN a ELSE b

Max(a, b) == IF a > b THEN a ELSE b

\* s[from:to] of Python, for 0 <= from.
Slice(s, from, to) == SubSeq(s, from + 1, Min(to, Len(s)))

\* s[from:] of Python.
Tail2(s, from) == SubSeq(s, from + 1, Len(s))

\* What a well-behaved stream at position p returns for read(n): everything
\* left for None or a negative n, at most n bytes otherwise.
StreamRead(c, p, n) ==
  IF n = NoSize \/ n < 0 THEN Tail2(c, Min(p, Len(c)))
  ELSE Slice(c, Min(p, Len(c)), p + n)

\* The attributes of a handler that was constructed and not opened: fh is the
\* class attribute None; offset and buffer are not set and nothing reads them.
NewHandler == [fh |-> FALSE, pos |-> 0, offset |-> 0, buffer |-> <<>>, size |-> 0]

\* The attributes Open() sets: fh, and per class offset = 0, buffer = '', size.
OpenHandler(c) ==
  [fh |-> TRUE, pos |-> 0, offset |-> 0, buffer |-> <<>>, size |-> Len(c)]

Result(hh, out, err) == [h |-> hh, out |-> out, err |-> err]

\* PlasoFile.read that raises when the file is not open.
PlasoFile_readStrict(c, hh, size) ==
  IF hh.fh
    THEN LET line == StreamRead(c, hh.pos, size)
         IN Result([hh EXCEPT !.pos = hh.pos + Len(line)], line, "none")
    ELSE Result(hh, <<>>, "RuntimeError")

\* PlasoFile.read, also GzipFile.read: self.fh.read(size), '' when fh is None.
PlasoFile_read(c, hh, size) ==
  IF hh.fh
    THEN LET line == StreamRead(c, hh.pos, size)
         IN Result([hh EXCEPT !.pos = hh.pos + Len(line)], line, "none")
    ELSE Result(hh, <<>>, "none")

\* ZipFile.read that asks for all that is left, whatever its size.
ZipReadSizeNoCeiling(member_size, offset, size) ==
  IF size = NoSize THEN member_size - offset ELSE size

\* ZipFile.read: the size asked of the extraction stream.
ZipReadSize(member_size, offset, size) ==
  IF size = NoSize THEN Min(member_size - offset, ZipReadCeiling) ELSE size

\* ZipFile.read: whether '[ZIP] Not able to read in the entire file (too
\* large).' is logged.
ZipTooLarge(member_size, offset, size) ==
  /\ size = NoSize
  /\ ZipReadSize(member_size, offset, size) # member_size - offset

\* ZipFile.read
ZipFile_read(c, hh, size) ==
  IF ~hh.fh THEN Result(hh, <<>>, "none")
  ELSE LET sz == ZipReadSize(hh.size, hh.offset, size)
           line == StreamRead(c, hh.pos, sz)
       IN Result([hh EXCEPT !.pos = hh.pos + Len(line),
                            !.offset = hh.offset + Len(line)], line, "none")

\* What the extraction stream of a TAR member returns for read(n): what was
\* asked for and up to `over` bytes more.
TarStreamRead(c, p, n, over) ==
  IF n = NoSize \/ n < 0 THEN Tail2(c, Min(p, Len(c)))
  ELSE Slice(c, Min(p, Len(c)), p + n + over)

\* TarFile.read that drops what the stream returned beyond size.
TarFile_readDropExcess(c, hh, size, over) ==
  IF ~hh.fh THEN Result(hh, <<>>, "none")
  ELSE IF size # NoSize /\ size # 0 /\ Len(hh.buffer) >= size
    THEN Result([hh EXCEPT !.buffer = Tail2(hh.buffer, size)],
                Slice(hh.buffer, 0, size), "none")
  ELSE LET read_size == IF size # NoSize /\ size # 0
                          THEN size - Len(hh.buffer) ELSE NoSize
           got == TarStreamRead(c, hh.pos, read_size, over)
           r == hh.buffer \o got
       IN Result([hh EXCEPT !.pos = hh.pos + Len(got), !.buffer = <<>>],
                 IF size # NoSize /\ size # 0 /\ Len(r) > size
                   THEN Slice(r, 0, size) ELSE r,
                 "none")

\* TarFile.read.  "if size" is false for None and for 0.
TarFile_read(c, hh, size, over) ==
  IF ~hh.fh THEN Result(hh, <<>>, "none")
  ELSE IF size # NoSize /\ size # 0 /\ Len(hh.buffer) >= size
    THEN Result([hh EXCEPT !.buffer = Tail2(hh.buffer, size)],
                Slice(hh.buffer, 0, size), "none")
  ELSE LET read_size == IF size # NoSize /\ size # 0
                          THEN size - Len(hh.buffer) ELSE NoSize
           got == TarStreamRead(c, hh.pos, read_size, over)
           r == hh.buffer \o got
       IN IF size # NoSize /\ size # 0 /\ Len(r) > size
            THEN Result([hh EXCEPT !.pos = hh.pos + Len(got),
                                   !.buffer = Tail2(r, size)],
                        Slice(r, 0, size), "none")
            ELSE Result([hh EXCEPT !.pos = hh.pos + Len(got), !.buffer = <<>>],
                        r, "none")

\* read() of the handler's class.
Read(k, c, hh, size, over) ==
  CASE k = "ZIP" -> ZipFile_read(c, hh, size)
    [] k = "TAR" -> TarFile_read(c, hh, size, over)
    [] OTHER -> PlasoFile_read(c, hh, size)

\* What re-opening the member gives seek(): close() and Open(self.orig_fh).
ZipReopen(c, hh) == OpenHandler(c)

\* ZipFile.seek with whence = 0: close, open again, read offset bytes.
ZipSeekSet(c, hh, offset) == ZipFile_read(c, ZipReopen(c, hh), offset).h

\* ZipFile.seek
ZipFile_seek(c, hh, offset, whence) ==
  IF ~hh.fh THEN Result(hh, <<>>, "RuntimeError")
  ELSE IF whence = 0 THEN Result(ZipSeekSet(c, hh, offset), <<>>, "none")
  ELSE IF whence = 1
    THEN IF offset > 0
           THEN Result(ZipFile_read(c, hh, offset).h, <<>>, "none")
           ELSE Result(ZipSeekSet(c, hh, hh.offset + offset), <<>>, "none")
  ELSE IF whence = 2
    THEN LET ofs == hh.size + offset
         IN IF ofs > hh.offset
              THEN Result(ZipFile_read(c, hh, ofs - hh.offset).h, <<>>, "none")
              ELSE Result(ZipFile_read(c, ZipSeekSet(c, hh, 0), ofs).h,
                          <<>>, "none")
  ELSE Result(hh, <<>>, "RuntimeError")

\* Where seek(offset, whence) of a native stream at position p aims.
SeekTarget(c, p, offset, whence) ==
  CASE whence = 0 -> offset
    [] whence = 1 -> p + offset
    [] OTHER -> Len(c) + offset

\* PlasoFile.seek that returns silently when the file is not open.
PlasoFile_seekLenient(c, hh, offset, whence) ==
  IF hh.fh
    THEN Result([hh EXCEPT !.pos = SeekTarget(c, hh.pos, offset, whence)],
                <<>>, "none")
    ELSE Result(hh, <<>>, "none")

\* PlasoFile.seek: self.fh.seek(offset, whence), RuntimeError when fh is None.
PlasoFile_seek(c, hh, offset, whence) ==
  IF hh.fh
    THEN Result([hh EXCEPT !.pos = SeekTarget(c, hh.pos, offset, whence)],
                <<>>, "none")
    ELSE Result(hh, <<>>, "RuntimeError")

\* seek(offset) of the gzip stream: rewind when the target is behind, then
\* read and drop up to the target, stopping at the end of the data.
GzipStreamSeek(c, p, target) == Min(target, Len(c))

\* rewind() of the gzip stream: the decoder starts again at offset 0.
GzipStreamRewind(p) == 0

\* Whether seek(target) of the gzip stream at position p rewinds: only when
\* the target is behind.
GzipStreamRewinds(p, target) == target < p

\* The number of bytes GzipFile.Open reads to have the size calculated.
GzipProbe == 4

\* self.fh.size after the read of Open: the bytes decompressed so far, which
\* are at least the bytes that read returned.
GzipDiscovered(c) == Len(StreamRead(c, 0, GzipProbe))..Len(c)

\* GzipFile.Open: the probe read, the rewind, and the size found.
GzipFile_Open(c, discovered) ==
  LET probe == StreamRead(c, 0, GzipProbe)
  IN [fh |-> TRUE, pos |-> GzipStreamRewind(Len(probe)), offset |-> 0,
      buffer |-> <<>>, size |-> discovered]

\* What Open() of the handler's class can leave.
Opened(k, c) ==
  IF k = "GZIP" THEN {GzipFile_Open(c, d) : d \in GzipDiscovered(c)}
  ELSE {OpenHandler(c)}

\* GzipFile.seek that never rewinds: a target behind is not reached.
GzipFile_seekNoRewind(c, hh, offset, whence) ==
  IF ~hh.fh THEN Result(hh, <<>>, "RuntimeError")
  ELSE LET target == IF whence = 2 THEN hh.size + offset
                     ELSE SeekTarget(c, hh.pos, offset, whence)
       IN Result([hh EXCEPT !.pos = GzipStreamSeek(c, hh.pos,
                                                   Max(target, hh.pos))],
                 <<>>, "none")

\* GzipFile.seek: whether the decoder is rewound to the start.
GzipFile_seekRewinds(c, hh, offset, whence) ==
  /\ hh.fh
  /\ IF whence = 2
       THEN LET ofs == hh.size + offset
            IN IF ofs > hh.pos
                 THEN GzipStreamRewinds(hh.pos, hh.pos + (ofs - hh.pos))
                 ELSE TRUE
       ELSE GzipStreamRewinds(hh.pos, SeekTarget(c, hh.pos, offset, whence))

\* GzipFile.seek
GzipFile_seek(c, hh, offset, whence) ==
  IF ~hh.fh THEN Result(hh, <<>>, "RuntimeError")
  ELSE IF whence = 2
    THEN LET ofs == hh.size + offset
         IN IF ofs > hh.pos
              THEN Result([hh EXCEPT !.pos =
                             GzipStreamSeek(c, hh.pos, hh.pos + (ofs - hh.pos))],
                          <<>>, "none")
              ELSE Result([hh EXCEPT !.pos =
                             GzipStreamSeek(c, GzipStreamRewind(hh.pos), ofs)],
                          <<>>, "none")
  ELSE Result([hh EXCEPT !.pos =
                 GzipStreamSeek(c, hh.pos, SeekTarget(c, hh.pos, offset, whence))],
              <<>>, "none")

\* seek(pos, whence) of the extraction stream of a TAR member: the position
\* is kept within 0..size.
TarStreamSeek(c, p, offset, whence) ==
  CASE whence = 0 -> Min(Max(offset, 0), Len(c))
    [] whence = 1 -> IF offset < 0 THEN Max(p + offset, 0)
                     ELSE Min(p + offset, Len(c))
    [] OTHER -> Max(Min(Len(c) + offset, Len(c)), 0)

\* TarFile.seek
TarFile_seek(c, hh, offset, whence) ==
  IF ~hh.fh THEN Result(hh, <<>>, "RuntimeError")
  ELSE IF whence = 1
    THEN IF offset > 0 /\ Len(hh.buffer) > offset
           THEN Result([hh EXCEPT !.buffer = Tail2(hh.buffer, offset)],
                       <<>>, "none")
           ELSE Result([hh EXCEPT
                          !.buffer = <<>>,
                          !.pos = TarStreamSeek(c, hh.pos,
                                                offset - Len(hh.buffer), 1)],
                       <<>>, "none")
  ELSE Result([hh EXCEPT !.buffer = <<>>,
                         !.pos = TarStreamSeek(c, hh.pos, offset, whence)],
              <<>>, "none")

\* seek() of the handler's class.
Seek(k, c, hh, offset, whence) ==
  CASE k = "ZIP" -> ZipFile_seek(c, hh, offset, whence)
    [] k = "GZIP" -> GzipFile_seek(c, hh, offset, whence)
    [] k = "TAR" -> TarFile_seek(c, hh, offset, whence)
    [] OTHER -> PlasoFile_seek(c, hh, offset, whence)

\* PlasoFile.tell
PlasoFile_tell(hh) == IF hh.fh THEN hh.pos ELSE 0

\* ZipFile.tell
ZipFile_tell(hh) == IF ~hh.fh THEN 0 ELSE hh.offset

\* TarFile.tell that answers with the position of the extraction stream.
TarFile_tellStream(hh) == IF ~hh.fh THEN 0 ELSE hh.pos

\* TarFile.tell
TarFile_tell(hh) == IF ~hh.fh THEN 0 ELSE hh.pos - Len(hh.buffer)

\* tell() of the handler's class.
Tell(k, hh) ==
  CASE k = "ZIP" -> ZipFile_tell(hh)
    [] k = "TAR" -> TarFile_tell(hh)
    [] OTHER -> PlasoFile_tell(hh)

\* PlasoFile.close: self.fh.close(); self.fh = None
PlasoFile_close(hh) == IF hh.fh THEN [hh EXCEPT !.fh = FALSE] ELSE hh

\* ZipFile.close: also self.offset = 0
ZipFile_close(hh) ==
  IF hh.fh THEN [hh EXCEPT !.fh = FALSE, !.offset = 0] ELSE hh

\* close() of the handler's class.
Close(k, hh) == IF k = "ZIP" THEN ZipFile_close(hh) ELSE PlasoFile_close(hh)

\* The record of one call: what was called, with what, how far the stream
\* read beyond what it was asked, what came back, and whether the handler was
\* as Open() leaves it when the call was made.
Logged(op, arg, whence, over, out, err) ==
  [op |-> op, arg |-> arg, whence |-> whence, over |-> over, out |-> out,
   err |-> err, fresh |-> (h = OpenHandler(content))]

NoCall ==
  [op |-> "none", arg |-> 0, whence |-> 0, over |-> 0, out |-> <<>>,
   err |-> "none", fresh |-> FALSE]

\* The sizes read() is called with: None, 0 and up to one past the file size.
ReadSizes == {NoSize} \cup (0..(MaxSize + 1))

SeekOffsets == (0 - MaxSize)..MaxSize

\* The native streams are only sought to positions from 0 to one past the
\* largest file; the ZIP and TAR classes take any offset.
SeekInRange(offset, whence) ==
  \/ kind \in {"ZIP", "TAR"}
  \/ ~h.fh
  \/ SeekTarget(content, h.pos, offset, whence) \in 0..(MaxSize + 1)

\* handler.Open() on a handler that was constructed and not yet opened.
HOpen ==
  /\ life = "new"
  /\ h' \in Opened(kind, content)
  /\ life' = "open"
  /\ last' = Logged("open", 0, 0, 0, <<>>, "none")
  /\ prev' = NoCall
  /\ UNCHANGED <<kind, content>>
  /\ UNCHANGED <<cacheVars, resolveVars, statVars, largeVars, tarVars>>

\* handler.read(size)
HRead(size, over) ==
  /\ kind = "TAR" \/ over = 0
  /\ LET r == Read(kind, content, h, size, over)
     IN /\ h' = r.h
        /\ last' = Logged("read", size, 0, over, r.out, r.err)
  /\ prev' = last
  /\ UNCHANGED <<kind, content, life>>
  /\ UNCHANGED <<cacheVars, resolveVars, statVars, largeVars, tarVars>>

\* handler.seek(offset, whence)
HSeek(offset, whence) ==
  /\ SeekInRange(offset, whence)
  /\ LET r == Seek(kind, content, h, offset, whence)
     IN /\ h' = r.h
        /\ last' = Logged("seek", offset, whence, 0, r.out, r.err)
  /\ prev' = NoCall
  /\ UNCHANGED <<kind, content, life>>
  /\ UNCHANGED <<cacheVars, resolveVars, statVars, largeVars, tarVars>>

\* handler.tell()
HTell ==
  /\ last' = Logged("tell", 0, 0, 0, Tell(kind, h), "none")
  /\ prev' = NoCall
  /\ UNCHANGED <<kind, content, h, life>>
  /\ UNCHANGED <<cacheVars, resolveVars, statVars, largeVars, tarVars>>

\* handler.close()
HClose ==
  /\ h' = Close(kind, h)
  /\ life' = IF life = "open" THEN "closed" ELSE life
  /\ last' = Logged("close", 0, 0, 0, <<>>, "none")
  /\ prev' = NoCall
  /\ UNCHANGED <<kind, content>>
  /\ UNCHANGED <<cacheVars, resolveVars, statVars, largeVars, tarVars>>

\* A handler of any class, constructed on a file of any size up to MaxSize.
InitHandler ==
  /\ kind \in Kinds
  /\ content \in {[i \in 1..n |-> i] : n \in 0..MaxSize}
  /\ h = NewHandler
  /\ life = "new"
  /\ last = NoCall
  /\ prev = NoCall

NextHandler ==
  \/ HOpen
  \/ \E size \in ReadSizes, over \in 0..MaxOver : HRead(size, over)
  \/ \E offset \in SeekOffsets, whence \in 0..2 : HSeek(offset, whence)
  \/ HTell
  \/ HClose

(***************************************************************************)
(* Part B2.  A TAR handler on a member with lines: read, readline, seek    *)
(* and tell, with what the caller received kept beside the handler.        *)
(***************************************************************************)
\* How far the extraction stream reads beyond what it was asked.
TarOver == 2

\* The byte '\n'.
NL == 0

\* '\n' in s
HasNL(s) == \E i \in 1..Len(s) : s[i] = NL

\* s.partition('\n'): result + sep, the part up to and with the first '\n',
\* or all of s when it has none.
LineOf(s) ==
  IF HasNL(s)
    THEN SubSeq(s, 1, CHOOSE i \in 1..Len(s) :
                        s[i] = NL /\ \A j \in 1..(i - 1) : s[j] # NL)
    ELSE s

\* readline(size) of the extraction stream of a TAR member at position p: the
\* line that begins at p, cut to size bytes unless size is -1.
TarStreamReadline(c, p, size) ==
  LET line == LineOf(Tail2(c, Min(p, Len(c))))
  IN IF size < 0 THEN line ELSE Slice(line, 0, size)

\* TarFile.readline
TarFile_readline(c, hh, size) ==
  IF ~hh.fh THEN Result(hh, <<>>, "none")
  ELSE LET got == IF HasNL(hh.buffer) THEN <<>>
                  ELSE TarStreamReadline(c, hh.pos, size)
           filled == hh.buffer \o got
           cut == size > 0 /\ Len(filled) > size
           taken == IF cut THEN Slice(filled, 0, size) ELSE filled
           kept == IF cut THEN Tail2(filled, size) ELSE <<>>
           line == LineOf(taken)
       IN Result([hh EXCEPT !.pos = hh.pos + Len(got),
                            !.buffer = Tail2(taken, Len(line)) \o kept],
                 line, "none")

\* The members: up to MaxSize bytes, each a '\n' or a byte that tells its
\* place in the member.
LineContents ==
  {[i \in 1..n |-> IF i \in nl THEN NL ELSE i] :
     n \in 0..MaxSize, nl \in SUBSET (1..MaxSize)}

\* The sizes readline() is called with: the default -1, 0 and up to one past
\* the member size.
ReadlineSizes == (0 - 1)..(MaxSize + 1)

\* TarFile.Open
TarOpen ==
  /\ life = "new"
  /\ h' = OpenHandler(content)
  /\ life' = "open"
  /\ last' = Logged("open", 0, 0, 0, <<>>, "none")
  /\ delivered' = <<>>
  /\ origin' = 0
  /\ UNCHANGED <<kind, content, prev>>
  /\ UNCHANGED <<cacheVars, resolveVars, statVars, largeVars>>

\* TarFile.read(size)
TarRead(size, over) ==
  /\ life = "open"
  /\ LET r == TarFile_read(content, h, size, over)
     IN /\ h' = r.h
        /\ last' = Logged("read", size, 0, over, r.out, r.err)
        /\ delivered' = delivered \o r.out
  /\ UNCHANGED <<kind, content, life, prev, origin>>
  /\ UNCHANGED <<cacheVars, resolveVars, statVars, largeVars>>

\* TarFile.readline(size)
TarReadline(size) ==
  /\ life = "open"
  /\ LET r == TarFile_readline(content, h, size)
     IN /\ h' = r.h
        /\ last' = Logged("readline", size, 0, 0, r.out, r.err)
        /\ delivered' = delivered \o r.out
  /\ UNCHANGED <<kind, content, life, prev, origin>>
  /\ UNCHANGED <<cacheVars, resolveVars, statVars, largeVars>>

\* TarFile.seek(offset, whence); the caller's reads begin anew where a seek
\* of the member itself, from where the caller is, would lead.
TarSeek(offset, whence) ==
  /\ life = "open"
  /\ LET r == TarFile_seek(content, h, offset, whence)
     IN /\ h' = r.h
        /\ last' = Logged("seek", offset, whence, 0, r.out, r.err)
        /\ delivered' = <<>>
        /\ origin' = TarStreamSeek(content, origin + Len(delivered),
                                   offset, whence)
  /\ UNCHANGED <<kind, content, life, prev>>
  /\ UNCHANGED <<cacheVars, resolveVars, statVars, largeVars>>

\* TarFile.tell()
TarTell ==
  /\ life = "open"
  /\ last' = Logged("tell", 0, 0, 0, TarFile_tell(h), "none")
  /\ UNCHANGED <<kind, content, h, life, prev>>
  /\ UNCHANGED <<tarVars, cacheVars, resolveVars, statVars, largeVars>>

\* A TAR handler constructed on a member.
InitTar ==
  /\ kind = "TAR"
  /\ content \in LineContents
  /\ h = NewHandler
  /\ life = "new"
  /\ last = NoCall
  /\ prev = NoCall
  /\ delivered = <<>>
  /\ origin = 0

IdleTar ==
  /\ delivered = <<>>
  /\ origin = 0

NextTar ==
  \/ TarOpen
  \/ \E size \in ReadSizes, over \in 0..TarOver : TarRead(size, over)
  \/ \E size \in ReadlineSizes : TarReadline(size)
  \/ \E offset \in SeekOffsets, whence \in 0..2 : TarSeek(offset, whence)
  \/ TarTell

(***************************************************************************)
(* Part C.  OpenPFile: opening a chain of nested path specs                *)
(***************************************************************************)
MaxDepth == 3

DeepDepth == 66

\* PathSpec.type values.  PFILE_HANDLERS has a class for each but UNSET.
SpecTypes == {"OS", "TSK", "VSS", "ZIP", "GZIP", "BZ2", "TAR", "UNSET"}

\* What is wrong with what a path spec points at:
\*   missing_member  the archive has no member called file_path
\*   not_regular     the TAR member is not a regular file
\*   runtime         zipfile cannot open the member (RuntimeError)
\*   io_error        the file or stream cannot be opened or decoded (IOError)
\*   no_store        the VSS path spec has no vss_store_number
FaultsOf(type) ==
  CASE type = "ZIP" -> {"none", "missing_member", "runtime"}
    [] type = "TAR" -> {"none", "missing_member", "not_regular"}
    [] type = "VSS" -> {"none", "no_store", "io_error"}
    [] type = "UNSET" -> {"none"}
    [] OTHER -> {"none", "io_error"}

\* container_path of the path specs of a volume: the image file.
ContainerPath == <<"a">>

\* The path specs at nesting level n: file_path is unique to the level, and
\* a path spec at level MaxDepth has no nested_pathspec.  vss_store_number
\* reads 0 when the field is not set, as a protobuf field does.
SpecsAt(n) ==
  { [type |-> ty, file_path |-> <<"p">> \o NatStr(n), fault |-> f,
     nested |-> nst, vss_store_number |-> nr] :
      ty \in SpecTypes, f \in {"none", "missing_member", "not_regular",
                               "runtime", "io_error", "no_store"},
      nst \in BOOLEAN, nr \in {0, 1} }

\* The path specs the callers build: a volume (TSK, VSS) is the outermost
\* hop, its image named by container_path, and only a VSS path spec that has
\* the field carries a store number.
ValidSpec(sp, n) ==
  /\ sp.fault \in FaultsOf(sp.type)
  /\ sp.nested => n < MaxDepth
  /\ sp.type \in {"TSK", "VSS"} => n = 1
  /\ sp.vss_store_number # 0 => (sp.type = "VSS" /\ sp.fault # "no_store")

\* The class InitPFile registered for a type: PlasoFile.classes by TYPE.
HandlerClass(type) ==
  CASE type = "OS" -> "OsFile" [] type = "TSK" -> "TskFile"
    [] type = "VSS" -> "VssFile" [] type = "ZIP" -> "ZipFile"
    [] type = "GZIP" -> "GzipFile" [] type = "BZ2" -> "Bz2File"
    [] type = "TAR" -> "TarFile" [] OTHER -> "UNSET"

\* The TYPE attribute of a handler class.
HandlerType(cls) ==
  CASE cls = "OsFile" -> "OS" [] cls = "TskFile" -> "TSK"
    [] cls = "VssFile" -> "VSS" [] cls = "ZipFile" -> "ZIP"
    [] cls = "GzipFile" -> "GZIP" [] cls = "Bz2File" -> "BZ2"
    [] cls = "TarFile" -> "TAR" [] OTHER -> "UNSET"

\* PlasoFile.__init__: raises UnableToOpenFile when proto.type != self.TYPE.
UnableToOpenFile(cls, ty) == ty # HandlerType(cls)

\* The bytes every file of the chain holds; Part B is about the bytes.
ChainContent == <<1, 2>>

\* A constructor that takes the path spec of its own hop for the root.
NewPlasoFileOwnRoot(sp_ix, root_ix, ty) ==
  [cls |-> HandlerClass(ty), type |-> ty, pathspec |-> sp_ix,
   pathspec_root |-> sp_ix,
   src |-> 0, opened |-> FALSE, h |-> NewHandler,
   name |-> << >>, display_name |-> << >>]

\* PlasoFile.__init__(proto, root): pathspec, pathspec_root and name = ''.
\* spec and root are positions in chain; src is the handler passed to Open.
NewPlasoFile(sp_ix, root_ix, ty) ==
  [cls |-> HandlerClass(ty), type |-> ty, pathspec |-> sp_ix,
   pathspec_root |-> IF root_ix # 0 THEN root_ix ELSE sp_ix,
   src |-> 0, opened |-> FALSE, h |-> NewHandler,
   name |-> << >>, display_name |-> << >>]

\* u'%s:%s' % (a, b)
Colon(a, b) == a \o <<":">> \o b

\* OsFile.Open: display_name, given whether a filehandle was passed and its
\* name.
OsFile_display_name(sp, has_fh, fh_name) ==
  IF has_fh THEN Colon(fh_name, sp.file_path) ELSE sp.file_path

\* TskFile.Open: display_name.
TskFile_display_name(sp, has_fh, fh_name) ==
  IF has_fh
    THEN Colon(fh_name, Colon(ContainerPath, sp.file_path))
    ELSE Colon(ContainerPath, sp.file_path)

\* VssFile.Open: u'%s:vss_store_%d' % (display_name, vss_store_number).
VssFile_display_name(sp, has_fh, fh_name) ==
  TskFile_display_name(sp, has_fh, fh_name)
    \o <<":", "v", "s", "s", "_", "s", "t", "o", "r", "e", "_">>
    \o IntStr(sp.vss_store_number)

\* ZipFile.Open: path_name is filehandle.name or container_path.
ZipFile_display_name(sp, has_fh, fh_name) ==
  Colon(IF has_fh THEN fh_name ELSE ContainerPath, sp.file_path)

\* GzipFile.Open: u'%s_uncompressed' % filehandle.name, or self.name.
GzipFile_display_name(sp, has_fh, fh_name) ==
  IF has_fh
    THEN fh_name \o <<"_", "u", "n", "c", "o", "m", "p", "r", "e", "s", "s",
                      "e", "d">>
    ELSE sp.file_path

\* Bz2File.Open: display_name.
Bz2File_display_name(sp, has_fh, fh_name) ==
  IF has_fh THEN Colon(fh_name, sp.file_path) ELSE sp.file_path

\* TarFile.Open: display_name.
TarFile_display_name(sp, has_fh, fh_name) ==
  Colon(IF has_fh THEN fh_name ELSE ContainerPath, sp.file_path)

\* display_name as Open(filehandle) of the class of sp sets it.
DisplayName(sp, has_fh, fh_name) ==
  CASE sp.type = "OS" -> OsFile_display_name(sp, has_fh, fh_name)
    [] sp.type = "TSK" -> TskFile_display_name(sp, has_fh, fh_name)
    [] sp.type = "VSS" -> VssFile_display_name(sp, has_fh, fh_name)
    [] sp.type = "ZIP" -> ZipFile_display_name(sp, has_fh, fh_name)
    [] sp.type = "GZIP" -> GzipFile_display_name(sp, has_fh, fh_name)
    [] sp.type = "BZ2" -> Bz2File_display_name(sp, has_fh, fh_name)
    [] sp.type = "TAR" -> TarFile_display_name(sp, has_fh, fh_name)

\* ZipFile.Open: zf.getinfo(file_path) raises KeyError for a name the archive
\* does not have; a RuntimeError of zf.open is raised again as IOError.
ZipFile_Open(sp) ==
  CASE sp.fault = "missing_member" -> "KeyError"
    [] sp.fault = "runtime" -> "IOError"
    [] OTHER -> "none"

\* TarFile.Open: ft.extractfile(file_path) raises KeyError for a name the
\* archive does not have and returns None for a member that is no file,
\* which raises IOError.
TarFile_Open(sp) ==
  CASE sp.fault = "missing_member" -> "KeyError"
    [] sp.fault = "not_regular" -> "IOError"
    [] OTHER -> "none"

\* VssFile._OpenFileSystem raises IOError without a vss_store_number; else
\* TskFile.Open.
VssFile_Open(sp) ==
  IF sp.fault \in {"no_store", "io_error"} THEN "IOError" ELSE "none"

\* Open of the other classes: the IOError of open(), sleuthkit.Open,
\* GzipFile or BZ2File leaves Open as it is.
PlasoFile_Open(sp) == IF sp.fault = "io_error" THEN "IOError" ELSE "none"

\* handler.Open(fh): the exception it raises, or "none".
OpenError(sp) ==
  CASE sp.type = "ZIP" -> ZipFile_Open(sp)
    [] sp.type = "TAR" -> TarFile_Open(sp)
    [] sp.type = "VSS" -> VssFile_Open(sp)
    [] OTHER -> PlasoFile_Open(sp)

\* An OpenPFile whose exception carries the handler it was reading from.
RaisedWithHandler(err, hd, sp) ==
  [kind |-> err, cls |-> IF err = "IOError" THEN hd.cls ELSE "",
   path |-> IF err \in {"IOError", "KeyError"} THEN sp.file_path ELSE <<>>,
   handler |-> hd.pathspec - 1]

\* What OpenPFile raises when handler.Open(fh) raised err: "except IOError"
\* wraps an IOError with the class name and spec.file_path, and lets any
\* other exception through as it is.
RaisedByOpenPFile(err, hd, sp) ==
  IF err = "IOError"
    THEN [kind |-> "IOError", cls |-> hd.cls, path |-> sp.file_path,
          handler |-> 0]
    ELSE [kind |-> err, cls |-> "",
          path |-> IF err = "KeyError" THEN sp.file_path ELSE <<>>,
          handler |-> 0]

\* TskFile._OpenFileSystem(path, 0): the calls of FilesystemCache.Open it
\* makes, as argument triples; store_nr is left at its default -1.
TskFile_OpenFileSystem(sp) == << <<ContainerPath, 0, -1>> >>

\* _OpenFileSystem that passes vss_store_number on whether it is set or not.
VssFile_OpenFileSystemDefault(sp) ==
  << <<ContainerPath, 0, sp.vss_store_number>> >>

\* VssFile._OpenFileSystem(path, 0): raises before it calls
\* FilesystemCache.Open when the path spec has no vss_store_number.
VssFile_OpenFileSystem(sp) ==
  IF sp.fault = "no_store"
    THEN << >>
    ELSE << <<ContainerPath, 0, sp.vss_store_number>> >>

\* Open of every class going through the filesystem cache.
FsCallsEveryClass(sp) ==
  IF sp.type = "VSS" THEN VssFile_OpenFileSystem(sp)
  ELSE TskFile_OpenFileSystem(sp)

\* The calls of FilesystemCache.Open made by handler.Open(fh).
FsCalls(sp) ==
  CASE sp.type = "TSK" -> TskFile_OpenFileSystem(sp)
    [] sp.type = "VSS" -> VssFile_OpenFileSystem(sp)
    [] OTHER -> << >>

\* FilesystemCache.Open(path, offset, store_nr) run by one caller from entry
\* to return, the volume opening: the cache it leaves and whether it opened.
FilesystemCache_Open(cache, id, a) ==
  IF KeyOf(a) \in DOMAIN cache
    THEN [cache |-> cache, opened |-> FALSE]
    ELSE [cache |-> [k \in DOMAIN cache \cup {KeyOf(a)} |->
                       IF k # KeyOf(a) THEN cache[k]
                       ELSE IF a[3] >= 0
                         THEN OpenVssImage(id, a[1], a[3], a[2])
                         ELSE OpenTskImage(id, a[1], a[2])],
          opened |-> TRUE]

NoOutcome == [kind |-> "none", cls |-> "", path |-> <<>>, handler |-> 0]

\* close() on handler i that also closes the handler it reads from.
CloseInChainCascade(hs, i) ==
  [j \in 1..Len(hs) |->
     IF j = i \/ j = hs[i].src
       THEN [hs[j] EXCEPT !.h = Close(hs[j].type, hs[j].h)]
       ELSE hs[j]]

\* close() on handler i of the chain: self.fh.close(); self.fh = None.  The
\* stream of a wrapping class does not close the file object it was given.
CloseInChain(hs, i) ==
  [hs EXCEPT ![i].h = Close(hs[i].type, hs[i].h)]

\* Open that reads from the outermost handler of the chain whatever handler
\* it is given.
OpenedOnOutermost(hd, fh) == [hd EXCEPT !.src = IF fh = 0 THEN 0 ELSE 1]

\* handler.Open(fh): the handler reads from the handler it is given, or from
\* the file its path spec names when fh is None (0).
OpenedOn(hd, fh) == [hd EXCEPT !.src = fh]

\* The path specs a chain of SpecResolve can have at each level.
ValidSpecsAt ==
  [n \in 1..MaxDepth |-> { sp \in SpecsAt(n) : ValidSpec(sp, n) }]

\* The path specs of a chain of GZIP files, one compressed inside the other
\* DeepDepth times; each of them opens.
DeepSpecsAt ==
  [n \in 1..DeepDepth |->
     { [type |-> "GZIP", file_path |-> <<"p">> \o NatStr(n), fault |-> "none",
        nested |-> nst, vss_store_number |-> 0] :
         nst \in { b \in BOOLEAN : b => n < DeepDepth } }]

\* One call of OpenPFile(spec, fh, orig): spec is the last path spec of
\* chain, fh the last handler opened (None at the root).  nested_at[n] are
\* the path specs a nested_pathspec at level n can be.
OpenPFileOf(nested_at) ==
  /\ rpc = "call"
  /\ LET n == Len(chain)
         sp == chain[n]
         fh == Len(handlers)
         hd == NewPlasoFile(n, orig, sp.type)
         err == OpenError(sp)
     IN /\ IF sp.type = "UNSET"
             THEN \* handler_class is the number UNSET, and calling it fails
                  /\ rpc' = "raised"
                  /\ outcome' = [kind |-> "TypeError", cls |-> "",
                                 path |-> <<>>, handler |-> 0]
                  /\ UNCHANGED <<chain, handlers, orig>>
           ELSE IF UnableToOpenFile(hd.cls, sp.type)
             THEN \* except errors.UnableToOpenFile: raise IOError(...)
                  /\ rpc' = "raised"
                  /\ outcome' = [kind |-> "IOError", cls |-> "",
                                 path |-> sp.file_path, handler |-> 0]
                  /\ UNCHANGED <<chain, handlers, orig>>
           ELSE IF err # "none"
             THEN /\ rpc' = "raised"
                  /\ outcome' = RaisedByOpenPFile(err, hd, sp)
                  /\ handlers' = Append(handlers, OpenedOn(hd, fh))
                  /\ UNCHANGED <<chain, orig>>
           ELSE /\ handlers' = Append(handlers,
                                 [OpenedOn(hd, fh) EXCEPT !.opened = TRUE,
                                            !.h = OpenHandler(ChainContent),
                                            !.name = sp.file_path,
                                            !.display_name =
                                              DisplayName(sp, fh # 0,
                                                IF fh # 0 THEN handlers[fh].name
                                                          ELSE << >>)])
                /\ IF sp.nested
                     THEN /\ \E nx \in nested_at[n + 1] :
                               chain' = Append(chain, nx)
                          /\ orig' = IF orig # 0 THEN orig ELSE n
                          /\ UNCHANGED <<rpc, outcome>>
                     ELSE /\ rpc' = "returned"
                          /\ outcome' = [kind |-> "handler", cls |-> hd.cls,
                                         path |-> <<>>, handler |-> fh + 1]
                          /\ UNCHANGED <<chain, orig>>
        \* what handler.Open(fh) did to the cache before it returned or raised
        /\ IF sp.type # "UNSET" /\ FsCalls(sp) # << >>
             THEN LET a == FsCalls(sp)[1]
                      r == FilesystemCache_Open(cached_filesystems, next_obj, a)
                  IN /\ cached_filesystems' = r.cache
                     /\ next_obj' = IF r.opened THEN next_obj + 1 ELSE next_obj
                     /\ open_count' = IF r.opened
                                        THEN [open_count EXCEPT ![a] = @ + 1]
                                        ELSE open_count
             ELSE UNCHANGED <<cached_filesystems, next_obj, open_count>>
  /\ UNCHANGED closed
  /\ UNCHANGED <<pc, args, fs, ret, fail_count, calls, cache_before>>
  /\ UNCHANGED <<handlerVars, statVars, largeVars, tarVars>>

\* OpenPFile on the chains of SpecResolve.
OpenPFile == OpenPFileOf(ValidSpecsAt)

\* OpenPFile on a chain of GZIP files.
OpenPFileDeep == OpenPFileOf(DeepSpecsAt)

\* The caller, done with one chain (OpenPFile raised, or the handlers it
\* opened are closed), calls OpenPFile(spec) for another root path spec;
\* cached_filesystems belongs to the class and stays.
CallOpenPFile ==
  /\ \/ rpc = "raised"
     \/ rpc = "returned" /\ closed = 1..Len(handlers)
  /\ \E sp \in SpecsAt(1) : ValidSpec(sp, 1) /\ chain' = <<sp>>
  /\ handlers' = << >>
  /\ rpc' = "call"
  /\ orig' = 0
  /\ outcome' = NoOutcome
  /\ closed' = {}
  /\ UNCHANGED <<cacheVars, handlerVars, statVars, largeVars, tarVars>>

\* The caller closes one of the handlers of the chain it resolved.
RClose(i) ==
  /\ rpc = "returned"
  /\ i \in 1..Len(handlers)
  /\ i \notin closed
  /\ handlers' = CloseInChain(handlers, i)
  /\ closed' = closed \cup {i}
  /\ UNCHANGED <<chain, rpc, orig, outcome>>
  /\ UNCHANGED <<cacheVars, handlerVars, statVars, largeVars, tarVars>>

\* The caller reads from the handler OpenPFile returned, before it closes
\* any handler of the chain.
RRead(size) ==
  /\ rpc = "returned"
  /\ closed = {}
  /\ LET i == outcome.handler
     IN handlers' = [handlers EXCEPT ![i].h =
                       Read(handlers[i].type, ChainContent, @, size, 0).h]
  /\ UNCHANGED <<chain, rpc, orig, outcome, closed>>
  /\ UNCHANGED <<cacheVars, handlerVars, statVars, largeVars, tarVars>>

\* The caller seeks, from the start, in the handler OpenPFile returned, before
\* it closes any handler of the chain.
RSeek(offset) ==
  /\ rpc = "returned"
  /\ closed = {}
  /\ LET i == outcome.handler
     IN handlers' = [handlers EXCEPT ![i].h =
                       Seek(handlers[i].type, ChainContent, @, offset, 0).h]
  /\ UNCHANGED <<chain, rpc, orig, outcome, closed>>
  /\ UNCHANGED <<cacheVars, handlerVars, statVars, largeVars, tarVars>>

\* OpenPFile(spec) is called with a root path spec, fh = None and orig = None.
InitResolve ==
  /\ \E sp \in SpecsAt(1) : ValidSpec(sp, 1) /\ chain = <<sp>>
  /\ handlers = <<>>
  /\ rpc = "call"
  /\ orig = 0
  /\ outcome = NoOutcome
  /\ closed = {}

\* OpenPFile(spec) is called with the outermost path spec of a chain of
\* GZIP files.
InitDeep ==
  /\ \E sp \in DeepSpecsAt[1] : chain = <<sp>>
  /\ handlers = <<>>
  /\ rpc = "call"
  /\ orig = 0
  /\ outcome = NoOutcome
  /\ closed = {}

NextDeep == OpenPFileDeep

NextResolve ==
  \/ OpenPFile
  \/ CallOpenPFile
  \/ \E i \in 1..MaxDepth : RClose(i)

\* The sizes and offsets the caller reads and seeks with.
UseSizes == {NoSize, 1}

UseOffsets == 0..Len(ChainContent)

NextUse ==
  \/ OpenPFile
  \/ CallOpenPFile
  \/ \E i \in 1..MaxDepth : RClose(i)
  \/ \E size \in UseSizes : RRead(size)
  \/ \E offset \in UseOffsets : RSeek(offset)

(***************************************************************************)
(* Part D.  Stats and TskFile.Stat                                         *)
(***************************************************************************)
MaxMissing == 3

MaxSets == 2

\* The attributes TskFile.Stat assigns on the Stats object it returns.
StatFields ==
  {"mode", "ino", "nlink", "uid", "gid", "size", "atime", "atime_nano",
   "crtime", "crtime_nano", "mtime", "mtime_nano", "ctime", "ctime_nano",
   "dtime", "dtime_nano", "bkup_time", "bkup_time_nano", "os_type"}

\* The attributes a metadata record of the file system (info.meta) can have.
NativeFieldSeq ==
  <<"uid", "mode", "addr", "nlink", "gid", "size", "atime", "atime_nano",
    "crtime", "crtime_nano", "mtime", "mtime_nano", "ctime", "ctime_nano",
    "dtime", "dtime_nano", "bkup_time", "bkup_time_nano">>

NativeFields == { NativeFieldSeq[i] : i \in DOMAIN NativeFieldSeq }

\* The value the record has for a field: one number per field, 0 for uid.
NativeValue(f) ==
  (CHOOSE i \in DOMAIN NativeFieldSeq : NativeFieldSeq[i] = f) - 1

\* The subsets of S with at most k elements.
RECURSIVE SubsetsUpTo(_, _)
SubsetsUpTo(S, k) ==
  IF k = 0 THEN {{}}
  ELSE LET less == SubsetsUpTo(S, k - 1)
       IN less \cup { m \cup {x} : m \in less, x \in S }

\* The metadata records: every field but at most MaxMissing of them.
MetaRecords ==
  { [f \in NativeFields \ m |-> NativeValue(f)] :
      m \in SubsetsUpTo(NativeFields, MaxMissing) }

\* str(self._fs.info.ftype), longer than 12 characters or not.
FsTypes ==
  { <<"T", "S", "K", "_", "F", "S", "_", "T", "Y", "P", "E", "_", "N", "T",
      "F", "S">>,
    <<"N", "T", "F", "S">> }

\* Stats(): self.attributes = {}.
Stats_init == << >>

\* Stats.__setattr__(attr, value) for a name that is no attribute of the
\* object itself: self.attributes.__setitem__(attr, value).
Stats_setattr(attributes, attr, value) ==
  [a \in DOMAIN attributes \cup {attr} |->
     IF a = attr THEN value ELSE attributes[a]]

\* A read that gives 0 for an attribute that was not set.
Stats_getattrDefault(attributes, attr) ==
  IF attr \in DOMAIN attributes
    THEN [err |-> "none", out |-> attributes[attr]]
    ELSE [err |-> "none", out |-> 0]

\* Stats.__getattr__(attr): the value in self.attributes, or AttributeError.
Stats_getattr(attributes, attr) ==
  IF attr \in DOMAIN attributes
    THEN [err |-> "none", out |-> attributes[attr]]
    ELSE [err |-> "AttributeError", out |-> 0]

\* The try blocks of TskFile.Stat in their order, each a sequence of
\* assignments <<attribute of ret, attribute of meta>>.
StatBlocks ==
  << << <<"ino", "addr">> >>,
     << <<"nlink", "nlink">> >>,
     << <<"uid", "uid">>, <<"gid", "gid">> >>,
     << <<"size", "size">> >>,
     << <<"atime", "atime">>, <<"atime_nano", "atime_nano">> >>,
     << <<"crtime", "crtime">>, <<"crtime_nano", "crtime_nano">> >>,
     << <<"mtime", "mtime">>, <<"mtime_nano", "mtime_nano">> >>,
     << <<"ctime", "ctime">>, <<"ctime_nano", "ctime_nano">> >>,
     << <<"dtime", "ctime">>, <<"dtime_nano", "ctime_nano">> >>,
     << <<"bkup_time", "ctime">>, <<"bkup_time_nano", "ctime_nano">> >> >>

\* One try block: the assignments run in order until an attribute of meta
\* is missing; except AttributeError: pass keeps what was assigned before.
RECURSIVE TryBlock(_, _, _)
TryBlock(attributes, m, block) ==
  IF block = << >> THEN attributes
  ELSE IF Head(block)[2] \notin DOMAIN m THEN attributes
  ELSE TryBlock(Stats_setattr(attributes, Head(block)[1], m[Head(block)[2]]),
                m, Tail(block))

RECURSIVE TryBlocks(_, _, _)
TryBlocks(attributes, m, blocks) ==
  IF blocks = << >> THEN attributes
  ELSE TryBlocks(TryBlock(attributes, m, Head(blocks)), m, Tail(blocks))

\* ret.os_type = fs_type[12:] if len(fs_type) > 12 else fs_type
OsType(ftype) == IF Len(ftype) > 12 THEN Tail2(ftype, 12) ELSE ftype

\* TskFile.Stat(): the Stats object it returns, or the exception it raises.
TskFile_Stat(fh_open, m, ftype) ==
  IF ~fh_open \/ m = None
    THEN [err |-> "none", ret |-> Stats_init]
  ELSE IF "mode" \notin DOMAIN m
    THEN \* ret.mode = meta.mode stands outside every try block
         [err |-> "AttributeError", ret |-> Stats_init]
  ELSE [err |-> "none",
        ret |-> Stats_setattr(
                  TryBlocks(Stats_setattr(Stats_init, "mode", m["mode"]), m,
                            StatBlocks),
                  "os_type", OsType(ftype))]

NoRead == [attr |-> "", err |-> "none", out |-> 0]

\* The handler's Stat() is called.
Stat ==
  /\ stat_out = "none"
  /\ LET r == TskFile_Stat(tsk_fh, meta, fs_type)
     IN /\ st' = r.ret
        /\ stat_out' = IF r.err = "none" THEN "returned" ELSE r.err
  /\ last_read' = NoRead
  /\ UNCHANGED <<meta, tsk_fh, fs_type, assigned, sets>>
  /\ UNCHANGED <<cacheVars, handlerVars, resolveVars, largeVars, tarVars>>

\* stats.attr = value
SetAttr(attr, value) ==
  /\ sets < MaxSets
  /\ sets' = sets + 1
  /\ st' = Stats_setattr(st, attr, value)
  /\ assigned' = [a \in DOMAIN assigned \cup {attr} |->
                    IF a = attr THEN value ELSE assigned[a]]
  /\ last_read' = NoRead
  /\ UNCHANGED <<meta, tsk_fh, fs_type, stat_out>>
  /\ UNCHANGED <<cacheVars, handlerVars, resolveVars, largeVars, tarVars>>

\* stats.attr is read.
GetAttr(attr) ==
  /\ last_read' = [attr |-> attr, err |-> Stats_getattr(st, attr).err,
             out |-> Stats_getattr(st, attr).out]
  /\ UNCHANGED <<meta, tsk_fh, fs_type, st, stat_out, assigned, sets>>
  /\ UNCHANGED <<cacheVars, handlerVars, resolveVars, largeVars, tarVars>>

\* An attribute of the object Stat() returned is read.
ReadStat(attr) ==
  /\ stat_out = "returned"
  /\ GetAttr(attr)

\* A TskFile, open or not, on a file with a metadata record or without.
InitStat ==
  /\ tsk_fh \in BOOLEAN
  /\ meta \in MetaRecords \cup {None}
  /\ fs_type \in FsTypes
  /\ (~tsk_fh => (meta = None /\ Len(fs_type) > 12))
  /\ st = Stats_init
  /\ stat_out = "none"
  /\ last_read = NoRead
  /\ assigned = << >>
  /\ sets = 0

\* A Stats object as Stats() makes it.
InitStats ==
  /\ tsk_fh = FALSE
  /\ meta = None
  /\ fs_type = << >>
  /\ st = Stats_init
  /\ stat_out = "none"
  /\ last_read = NoRead
  /\ assigned = << >>
  /\ sets = 0

NextStat ==
  \/ Stat
  \/ \E attr \in StatFields : ReadStat(attr)

NextStats ==
  \/ \E attr \in StatFields, value \in {0, 1} : SetAttr(attr, value)
  \/ \E attr \in StatFields : GetAttr(attr)

(***************************************************************************)
(* Part E.  ZipFile.read on members around the size of the read ceiling.   *)
(* The bytes of such a member are not kept: the member is its size, and    *)
(* the extraction stream returns a number of bytes.                        *)
(***************************************************************************)
LargeSpan == 3

\* Sizes and offsets around 0, the ceiling, and twice the ceiling.
LargeNumbers ==
  {n \in {b + d : b \in {0, ZipReadCeiling, 2 * ZipReadCeiling},
                   d \in (0 - LargeSpan)..LargeSpan} : n >= 0}

\* The number of bytes zipfile's extraction stream returns for read(n) when
\* left bytes of the member are still unread.
ZipStreamCount(left, n) == IF n < 0 THEN left ELSE Min(n, left)

NoLargeRead == [op |-> "none"]

\* ZipFile.read(size=None) at offset zip_offset of a member of zip_size bytes.
ZipReadUnbound ==
  LET size == ZipReadSize(zip_size, zip_offset, NoSize)
      line == ZipStreamCount(zip_size - zip_offset, size)
  IN /\ zip_offset' = zip_offset + line
     /\ zip_log' = [op |-> "read", offset |-> zip_offset, size |-> size,
                    returned |-> line,
                    too_large |-> ZipTooLarge(zip_size, zip_offset, NoSize)]
     /\ UNCHANGED zip_size
     /\ UNCHANGED <<cacheVars, handlerVars, resolveVars, statVars, tarVars>>

\* A ZIP handler open on a member, after any reads and seeks.
InitLarge ==
  /\ zip_size \in LargeNumbers
  /\ zip_offset \in {p \in LargeNumbers : p <= zip_size}
  /\ zip_log = NoLargeRead

IdleLarge ==
  /\ zip_size = 0
  /\ zip_offset = 0
  /\ zip_log = NoLargeRead

NextLarge == ZipReadUnbound

(***************************************************************************)
(* The specifications.  Each runs one part; the other parts stay as they   *)
(* are before anything is called.                                          *)
(***************************************************************************)
vars == <<cacheVars, handlerVars, resolveVars, statVars, largeVars, tarVars>>

IdleHandler ==
  /\ kind = "OS"
  /\ content = <<>>
  /\ h = NewHandler
  /\ life = "new"
  /\ last = NoCall
  /\ prev = NoCall

IdleResolve ==
  /\ chain = <<>>
  /\ handlers = <<>>
  /\ rpc = "idle"
  /\ orig = 0
  /\ outcome = NoOutcome
  /\ closed = {}

NextCache ==
  \/ \E t \in Threads, a \in ArgSet : Call(t, a)
  \/ \E t \in Threads : Lookup(t)
  \/ \E t \in Threads : OpenImage(t)
  \/ \E t \in Threads : OpenFail(t)
  \/ \E t \in Threads : Store(t)

\* One caller at a time: a call begins only when no other call is under way.
NextCacheSeq ==
  \/ \E t \in Threads, a \in ArgSet :
       (\A u \in Threads : ~InFlight(u)) /\ Call(t, a)
  \/ \E t \in Threads : Lookup(t)
  \/ \E t \in Threads : OpenImage(t)
  \/ \E t \in Threads : OpenFail(t)
  \/ \E t \in Threads : Store(t)

InitSpecCache ==
  InitCache /\ IdleHandler /\ IdleResolve /\ InitStats
  /\ IdleLarge /\ IdleTar

InitSpecHandler ==
  InitCache /\ InitHandler /\ IdleResolve /\ InitStats
  /\ IdleLarge /\ IdleTar

InitSpecResolve ==
  InitCache /\ IdleHandler /\ InitResolve /\ InitStats
  /\ IdleLarge /\ IdleTar

InitSpecDeep ==
  InitCache /\ IdleHandler /\ InitDeep /\ InitStats
  /\ IdleLarge /\ IdleTar

InitSpecStat ==
  InitCache /\ IdleHandler /\ IdleResolve /\ InitStat
  /\ IdleLarge /\ IdleTar

InitSpecStats ==
  InitCache /\ IdleHandler /\ IdleResolve /\ InitStats
  /\ IdleLarge /\ IdleTar

InitSpecZipLarge ==
  InitCache /\ IdleHandler /\ IdleResolve /\ InitStats /\ InitLarge
  /\ IdleTar

SpecZipLarge == InitSpecZipLarge /\ [][NextLarge]_vars

InitSpecTar == InitCache /\ InitTar /\ IdleResolve /\ InitStats /\ IdleLarge

SpecTar == InitSpecTar /\ [][NextTar]_vars

SpecCache == InitSpecCache /\ [][NextCache]_vars

SpecCacheSeq == InitSpecCache /\ [][NextCacheSeq]_vars

SpecHandler == InitSpecHandler /\ [][NextHandler]_vars

SpecResolve == InitSpecResolve /\ [][NextResolve]_vars

SpecUse == InitSpecResolve /\ [][NextUse]_vars

\* OpenPFile is a function that runs until it returns or raises.
SpecResolveFair == SpecResolve /\ WF_vars(OpenPFile)

SpecDeep == InitSpecDeep /\ [][NextDeep]_vars

SpecStat == InitSpecStat /\ [][NextStat]_vars

SpecStats == InitSpecStats /\ [][NextStats]_vars

(***************************************************************************)
(* Properties of FilesystemCache                                           *)
(***************************************************************************)

\* C1: calls of Open for one key that run at the same time while the key is
\* not cached perform exactly one OpenTskImage / OpenVssImage in total: no
\* argument triple is ever opened twice, and once a caller has its container
\* the triple was opened exactly once.
C1_ExactlyOneOpen ==
  \A a \in ArgSet :
    /\ open_count[a] <= 1
    /\ (\E t \in Threads : pc[t] = "done" /\ args[t] = a) => open_count[a] = 1

\* Two callers of one key hold the same container.
SameHandle ==
  \A t, u \in Threads :
    (pc[t] = "done" /\ pc[u] = "done" /\ args[t] = args[u]) => ret[t] = ret[u]

\* An entry of the cache stays what it is.
EntryStable ==
  \A k \in DOMAIN cached_filesystems :
    k \in DOMAIN cached_filesystems' /\ cached_filesystems'[k] = cached_filesystems[k]

\* C2: once the cache holds a container for a key the entry is never replaced
\* or removed, and all callers of the key, those that raced on the first open
\* included, receive the same container.
C2_EntryNeverReplaced == [][EntryStable]_vars /\ []SameHandle

\* C3: with one caller at a time, two calls with the same (path, offset,
\* store_nr) return the same container and open once; two calls that differ
\* only in the offset, or only in the store number, return different
\* containers, each under its own cache entry.
C3_SequentialKeys ==
  \A t, u \in Threads :
    (t # u /\ pc[t] = "done" /\ pc[u] = "done") =>
      /\ args[t] = args[u] =>
           /\ ret[t] = ret[u]
           /\ ret[t] # None
           /\ open_count[args[t]] = 1
      /\ ( /\ args[t][1] = args[u][1]
           /\ \/ (args[t][2] # args[u][2] /\ args[t][3] = args[u][3])
              \/ (args[t][2] = args[u][2] /\ args[t][3] # args[u][3]) ) =>
           /\ ret[t] # None /\ ret[u] # None
           /\ ret[t].id # ret[u].id
           /\ KeyOf(args[t]) # KeyOf(args[u])
           /\ cached_filesystems[KeyOf(args[t])] = ret[t]
           /\ cached_filesystems[KeyOf(args[u])] = ret[u]

\* Two callers, one after the other, asked for the same key and hold the
\* same container.
C3_Witness ==
  \E t, u \in Threads :
    /\ t # u /\ pc[t] = "done" /\ pc[u] = "done"
    /\ args[t] = args[u] /\ ret[t] = ret[u] /\ ret[t] # None

\* The step in which an open raises: the caller has no container and the
\* cache is what it was when the call began, without an entry for the key.
FailedOpenStep ==
  \A t \in Threads :
    (pc[t] # "failed" /\ pc'[t] = "failed") =>
      /\ ret'[t] = None
      /\ cached_filesystems' = cache_before[t]
      /\ KeyOf(args[t]) \notin DOMAIN cached_filesystems'

\* A call that returned holds a container that was opened for its key.
ReturnedIsOpened ==
  \A t \in Threads :
    pc[t] = "done" =>
      /\ ret[t] # None
      /\ open_count[args[t]] >= 1
      /\ ret[t].path = args[t][1] /\ ret[t].offset = args[t][2]

\* C4: when the open inside Open raises, the caller gets the error and no
\* container, the cache is what it was when the call began and has no entry
\* for the key; a later call for that key opens again, so a call that
\* returns always returns a container that was really opened for its key.
C4_FailedOpenLeavesCache == [][FailedOpenStep]_vars /\ []ReturnedIsOpened

\* A call returned a container for a key whose open had failed before.
C4_Witness ==
  \E t \in Threads :
    pc[t] = "done" /\ fail_count[args[t]] >= 1 /\ ret[t] # None

(***************************************************************************)
(* Properties of the handlers                                              *)
(***************************************************************************)

\* read(m) on a handler as Open() leaves it, the stream reading `over` bytes
\* more than asked.
FreshRead(m, over) == Read(kind, content, OpenHandler(content), m, over).out

\* The last two calls were seek(k, 0) and read(n) on an open handler, with
\* 0 <= k, 0 <= n and k + n within the file.
SeekThenRead ==
  /\ life = "open"
  /\ prev.op = "seek" /\ prev.whence = 0 /\ prev.arg >= 0 /\ prev.err = "none"
  /\ last.op = "read" /\ last.arg # NoSize /\ last.arg >= 0
  /\ prev.arg + last.arg <= Len(content)

\* C5: for every class of handler and every k, n with 0 <= k and k + n within
\* the file, seek(k, 0) followed by read(n), from any earlier position,
\* returns what read(k + n) returns on a freshly opened handler, without its
\* first k bytes.
C5_SeekThenRead ==
  SeekThenRead =>
    \A over \in 0..MaxOver :
      last.out = Tail2(FreshRead(prev.arg + last.arg, over), prev.arg)

\* The last two calls were read(a) and read(b), a, b >= 1, the first on a
\* TAR handler as Open() left it.
TarTwoReads ==
  /\ kind = "TAR" /\ life = "open"
  /\ prev.op = "read" /\ prev.fresh /\ prev.arg # NoSize /\ prev.arg >= 1
  /\ last.op = "read" /\ last.arg # NoSize /\ last.arg >= 1

\* C6: on a TAR handler, read(a) followed by read(b), a, b >= 1, return
\* together what one read(a + b) returns on a fresh handler, however many
\* bytes the extraction stream reads beyond what it is asked for.
C6_TarSplitRead ==
  TarTwoReads =>
    \A over \in 0..MaxOver :
      prev.out \o last.out = FreshRead(prev.arg + last.arg, over)

\* Two reads of a TAR member: the first made the stream read past what was
\* asked, the second got its bytes out of the buffer.
C6_Witness ==
  /\ TarTwoReads
  /\ prev.over >= 1
  /\ Len(prev.out) = prev.arg
  /\ Len(last.out) = last.arg
  /\ h.pos < Len(prev.out) + Len(last.out) + last.over + 1

C8_NeverOpened ==
  life = "new" =>
    /\ h = NewHandler
    /\ last.op = "seek" => last.err = "RuntimeError"
    /\ last.op = "read" => (last.err = "none" /\ last.out = <<>>)
    /\ last.op = "tell" => (last.err = "none" /\ last.out = 0)

\* A handler that was never opened was sought and then read.
C8_Witness ==
  /\ life = "new"
  /\ prev.op = "seek" /\ prev.err = "RuntimeError"
  /\ last.op = "read" /\ last.out = <<>>

(***************************************************************************)
(* Properties of OpenPFile and of the chain it opens                       *)
(***************************************************************************)

\* C9: closing a handler that was opened on another handler releases only
\* its own stream: every handler of the chain that was opened and that the
\* caller did not close still has its stream, whatever its class and depth.
C9_CloseLeavesUpstream ==
  \A j \in 1..Len(handlers) :
    (handlers[j].opened /\ j \notin closed) => handlers[j].h.fh

\* The innermost handler of a chain of three, an archive or compressed
\* stream, was closed, and the handler it reads from was not.
C9_Witness ==
  \E i \in closed :
    /\ i >= 3
    /\ handlers[i].type \in {"ZIP", "GZIP", "BZ2", "TAR"}
    /\ handlers[i].src = i - 1
    /\ ~handlers[i].h.fh
    /\ (i - 1) \notin closed
    /\ handlers[i - 1].h.fh

\* C10: OpenPFile on a ZIP or TAR path spec whose file_path is no member of
\* the archive raises the IOError of OpenPFile, which names file_path, and
\* returns no handler.
C10_MissingMemberIsOpenError ==
  ( /\ rpc = "raised"
    /\ chain[Len(chain)].type \in {"ZIP", "TAR"}
    /\ chain[Len(chain)].fault = "missing_member" ) =>
      /\ outcome.kind = "IOError"
      /\ outcome.path = chain[Len(chain)].file_path
      /\ outcome.handler = 0

\* The step in which Open of a VSS path spec without vss_store_number
\* raises: no entry of the cache and no count of volume opens changes.
NoStoreStep ==
  ( /\ rpc = "call" /\ rpc' = "raised"
    /\ chain[Len(chain)].type = "VSS"
    /\ chain[Len(chain)].fault = "no_store" ) =>
      /\ cached_filesystems' = cached_filesystems
      /\ open_count' = open_count
      /\ next_obj' = next_obj

\* OpenPFile on a VSS path spec without vss_store_number raised the IOError
\* that names VssFile, and returned no handler.
NoStoreRaised ==
  ( /\ rpc = "raised"
    /\ chain[Len(chain)].type = "VSS"
    /\ chain[Len(chain)].fault = "no_store" ) =>
      /\ outcome.kind = "IOError"
      /\ outcome.cls = "VssFile"
      /\ outcome.handler = 0

\* C11: opening a VSS path spec that has no vss_store_number fails with
\* IOError before FilesystemCache.Open is called: the cache and the count of
\* volume opens are what they were, and store 0 is not opened in its place.
C11_NoStoreFailsBeforeCache == [][NoStoreStep]_vars /\ []NoStoreRaised

\* OpenPFile raised on a VSS path spec without vss_store_number while the
\* cache held the TSK volume of the same image, and store 0 was not opened.
C11_Witness ==
  /\ rpc = "raised"
  /\ chain[Len(chain)].type = "VSS"
  /\ chain[Len(chain)].fault = "no_store"
  /\ KeyOf(<<ContainerPath, 0, -1>>) \in DOMAIN cached_filesystems
  /\ KeyOf(<<ContainerPath, 0, 0>>) \notin DOMAIN cached_filesystems
  /\ open_count[<<ContainerPath, 0, 0>>] = 0

\* C12: when handler.Open(fh) of a hop raises, OpenPFile raises the IOError
\* that names the class of the failing handler and the file_path of that
\* hop, returns no handler and opens no hop further inward.
C12_OpenFailureIsWrapped ==
  ( /\ rpc = "raised"
    /\ Len(handlers) = Len(chain)
    /\ ~handlers[Len(handlers)].opened ) =>
      /\ outcome.kind = "IOError"
      /\ outcome.cls = handlers[Len(handlers)].cls
      /\ outcome.path = chain[Len(chain)].file_path
      /\ outcome.handler = 0
      /\ \A j \in 1..Len(handlers) : handlers[j].opened <=> j < Len(handlers)

\* C13: OpenPFile on a path spec whose type has no class in PFILE_HANDLERS
\* (UNSET), or whose class has another TYPE than the path spec, raises
\* IOError, and no handler was constructed and opened for that path spec.
C13_NoHandlerIsIOError ==
  ( /\ rpc = "raised"
    /\ \/ HandlerClass(chain[Len(chain)].type) = "UNSET"
       \/ UnableToOpenFile(HandlerClass(chain[Len(chain)].type),
                           chain[Len(chain)].type) ) =>
      /\ outcome.kind = "IOError"
      /\ outcome.handler = 0
      /\ Len(handlers) = Len(chain) - 1

\* C14: every handler OpenPFile constructs, at any depth and the outermost
\* included, has the path spec of its own hop as pathspec and the outermost
\* path spec of the chain as pathspec_root.
C14_RootIsOutermost ==
  \A j \in 1..Len(handlers) :
    /\ handlers[j].pathspec = j
    /\ handlers[j].pathspec_root = 1

\* A chain of three hops was opened, and the innermost handler has the
\* outermost path spec as its root.
C14_Witness ==
  /\ rpc = "returned"
  /\ Len(handlers) = 3
  /\ handlers[3].pathspec = 3
  /\ handlers[3].pathspec_root = 1

\* What stands for hop j of the chain in a display name: the file_path of
\* its path spec, or the suffix GzipFile gives the name of its source.
HopMark(j) ==
  IF chain[j].type = "GZIP" /\ j > 1
    THEN <<"_", "u", "n", "c", "o", "m", "p", "r", "e", "s", "s", "e", "d">>
    ELSE chain[j].file_path

\* The string s holds the marks of the hops j, j + 1, ... of the chain, one
\* after the other, from position from on.
RECURSIVE EncodesFrom(_, _, _)
EncodesFrom(s, j, from) ==
  \/ j > Len(chain)
  \/ \E i \in from..(Len(s) - Len(HopMark(j)) + 1) :
       /\ SubSeq(s, i, i + Len(HopMark(j)) - 1) = HopMark(j)
       /\ EncodesFrom(s, j + 1, i + Len(HopMark(j)))

\* C15: when OpenPFile returns the handler of a chain of depth d, its
\* display_name holds a mark of each of the d hops, the outermost first.
C15_DisplayNameEncodesHops ==
  rpc = "returned" =>
    EncodesFrom(handlers[outcome.handler].display_name, 1, 1)

(***************************************************************************)
(* Properties of Stats and of TskFile.Stat                                 *)
(***************************************************************************)

\* C16: after any sequence of assignments to a Stats object, reading an
\* attribute that was never assigned raises AttributeError, reading an
\* attribute that was assigned returns the value last assigned to it, 0
\* included, and the attributes that can be read are the assigned ones.
C16_UnsetIsError ==
  /\ \A f \in StatFields :
       (Stats_getattr(st, f).err = "none") <=> (f \in DOMAIN assigned)
  /\ last_read.attr # "" =>
       IF last_read.attr \in DOMAIN assigned
         THEN last_read.err = "none" /\ last_read.out = assigned[last_read.attr]
         ELSE last_read.err = "AttributeError"

\* An attribute that was never assigned was read, and the read raised, on
\* an object that has another attribute assigned 0.
C16_Witness ==
  /\ last_read.attr # ""
  /\ last_read.attr \notin DOMAIN assigned
  /\ last_read.err = "AttributeError"
  /\ \E f \in DOMAIN assigned : assigned[f] = 0 /\ Stats_getattr(st, f).out = 0

\* The attribute of the projection that has the value of attribute f of the
\* metadata record.
StatName(f) == IF f = "addr" THEN "ino" ELSE f

\* C17: Stat on an open TskFile returns for every set of attributes the
\* metadata record has, a record without mode included: it never raises,
\* and an attribute the record lacks is left out of what it returns.
C17_StatNeverFails ==
  (stat_out # "none" /\ tsk_fh /\ meta # None) =>
    /\ stat_out = "returned"
    /\ \A f \in NativeFields \ DOMAIN meta : StatName(f) \notin DOMAIN st

\* The time attributes of the projection.
TimeFields ==
  {"atime", "atime_nano", "crtime", "crtime_nano", "mtime", "mtime_nano",
   "ctime", "ctime_nano", "dtime", "dtime_nano", "bkup_time",
   "bkup_time_nano"}

\* C20: in what Stat returns, every time attribute that is set (access,
\* creation, modification, change, deletion and backup time, and their
\* nanoseconds) has the value of the attribute of the same name of the
\* metadata record.
C20_TimesAreNative ==
  (stat_out = "returned" /\ meta # None) =>
    \A f \in TimeFields \cap DOMAIN st :
      f \in DOMAIN meta /\ st[f] = meta[f]

(***************************************************************************)
(* Properties of the walk of OpenPFile down the chain                      *)
(***************************************************************************)

\* What OpenPFile has done when it returns: one handler constructed and
\* opened per path spec of the chain, outermost first, the outermost on no
\* handler and every other on the handler of the hop before it, and the
\* handler of the innermost path spec returned.
WalkedInOrder ==
  rpc = "returned" =>
    /\ Len(handlers) = Len(chain)
    /\ ~chain[Len(chain)].nested
    /\ \A j \in 1..Len(handlers) :
         /\ handlers[j].opened
         /\ handlers[j].pathspec = j
         /\ handlers[j].type = chain[j].type
         /\ handlers[j].src = j - 1
         /\ chain[j].nested <=> j < Len(chain)
    /\ outcome.kind = "handler"
    /\ outcome.handler = Len(chain)

\* C19: a call of OpenPFile ends, and when the hops of a chain of depth d
\* all open it returns after d calls of Open made outermost first, the
\* first with no filehandle and each other with the handler of the hop
\* before it, and what it returns is the handler of the innermost hop.
C19_WalksChainAndReturns ==
  /\ []WalkedInOrder
  /\ (rpc = "call") ~> (rpc \in {"returned", "raised"})

\* OpenPFile returned the third handler of a chain of three, each opened on
\* the one before it.
C19_Witness ==
  /\ rpc = "returned"
  /\ Len(chain) = 3
  /\ outcome.handler = 3
  /\ handlers[1].src = 0 /\ handlers[2].src = 1 /\ handlers[3].src = 2

\* C18: OpenPFile does not open a chain of more than 64 nested path specs:
\* it never constructs a 65th handler, and it returns a handler only for a
\* chain of at most 64 hops.
C18_DepthLimited ==
  /\ Len(handlers) <= 64
  /\ rpc = "returned" => Len(chain) <= 64

\* C21: a ZIP read with no explicit size, at offset p of a member of size S,
\* asks the extraction stream for min(S - p, 24 MiB) bytes, advances the
\* tracked offset by exactly the number of bytes returned, and logs that the
\* whole file could not be read exactly when 24 MiB is smaller than S - p.
C21_UnboundReadIsCapped ==
  zip_log.op = "read" =>
    /\ zip_log.size = Min(zip_size - zip_log.offset, 24 * 1024 * 1024)
    /\ zip_offset = zip_log.offset + zip_log.returned
    /\ zip_log.too_large <=> (24 * 1024 * 1024 < zip_size - zip_log.offset)

\* A read that was cut at the ceiling, of a member that had more left.
C21_Witness ==
  /\ zip_log.op = "read"
  /\ zip_log.too_large
  /\ zip_log.returned = 24 * 1024 * 1024
  /\ zip_log.offset > 0
  /\ zip_offset < zip_size

\* The position a seek asks for: offset from the start, from the tracked
\* offset, or from the end of the member.
ZipTarget(offset, whence) ==
  CASE whence = 0 -> offset
    [] whence = 1 -> ZipFile_tell(h) + offset
    [] OTHER -> Len(content) + offset

ZipSeekStep ==
  (kind = "ZIP" /\ life = "open" /\ last'.op = "seek") =>
    LET target == ZipTarget(last'.arg, last'.whence)
    IN /\ target \in 0..Len(content) => Tell(kind, h') = target
       /\ (target < 0 /\ Len(content) > 0) => Tell(kind, h') # Len(content)

ZipOffsetInMember ==
  (kind = "ZIP" /\ life = "open") => h.offset \in 0..Len(content)

\* C22: for an open ZIP handler on a member of size S the tracked offset stays
\* within 0..S after any reads and seeks; a seek from the start, from the
\* current offset or from the end leaves tell() at its target when the target
\* lies within 0..S; and a seek to a negative target does not leave the
\* cursor at the end of the member.
C22_ZipSeekLandsOnTarget == [][ZipSeekStep]_vars /\ []ZipOffsetInMember

\* C23: for every requested size n >= 0, n = 0 included, and every state of
\* the lookahead buffer, read(n) of an open TAR handler returns at most n
\* bytes, whatever the extraction stream returned.
C23_TarReadAtMostSize ==
  (kind = "TAR" /\ life = "open" /\ last.op = "read" /\ last.arg # NoSize
     /\ last.arg >= 0) =>
    Len(last.out) <= last.arg

\* tell() is where the caller is: where its run of reads began plus the bytes
\* read and readline handed to it since.
TarTellIsLogical ==
  (kind = "TAR" /\ life = "open") =>
    TarFile_tell(h) = origin + Len(delivered)

TarSeekStep ==
  (kind = "TAR" /\ life = "open" /\ last'.op = "seek") =>
    LET offset == last'.arg
        logical == origin + Len(delivered)
    IN /\ (last'.whence = 1 /\ logical + offset \in 0..Len(content)) =>
            /\ TarFile_tell(h') = TarFile_tell(h) + offset
            /\ offset > 0 =>
                 /\ h'.pos = h.pos + Max(offset - Len(h.buffer), 0)
                 /\ Len(h'.buffer) = Max(Len(h.buffer) - offset, 0)
       /\ (last'.whence = 0 /\ offset \in 0..Len(content)) =>
            /\ h'.buffer = <<>>
            /\ TarFile_tell(h') = offset

\* C24: in every state of an open TAR handler tell(), the position of the
\* extraction stream minus the length of the lookahead buffer, is the logical
\* position: the bytes handed to the caller by read and readline since Open,
\* adjusted by seeks.  A seek from the current position to a place within the
\* member moves tell() by exactly its offset and uses up the buffer before
\* it moves the stream; a seek from the start to a place within the member
\* empties the buffer and sets tell() to its offset.
C24_TarTellIsLogicalPosition == [][TarSeekStep]_vars /\ []TarTellIsLogical

\* A seek forward by less than what the buffer holds, after reads that left
\* bytes in the buffer.
C24_Witness ==
  /\ kind = "TAR" /\ life = "open"
  /\ last.op = "seek" /\ last.whence = 1 /\ last.arg > 0
  /\ h.buffer # <<>>
  /\ TarFile_tell(h) > 1
  /\ TarFile_tell(h) < h.pos

\* The bytes handed to the caller since Open or the last seek are the bytes
\* of the member from where that run of reads began, in their order.
DeliveredInOrder ==
  (kind = "TAR" /\ life = "open") =>
    delivered = Slice(content, origin, origin + Len(delivered))

\* The lookahead buffer holds the bytes of the member between where the
\* caller is and where the extraction stream is.
BufferIsLookahead ==
  (kind = "TAR" /\ life = "open") =>
    h.buffer = Slice(content, TarFile_tell(h), h.pos)

\* readline(size) returns the line that begins where the caller is, cut to
\* size bytes when a size is given; a size of 0 may stand for no bytes or for
\* no limit.
ReadlineStep ==
  (kind = "TAR" /\ life = "open" /\ last'.op = "readline") =>
    LET line == LineOf(Tail2(content, origin + Len(delivered)))
        size == last'.arg
    IN /\ size > 0 => last'.out = Slice(line, 0, size)
       /\ size < 0 => last'.out = line
       /\ size = 0 => last'.out \in {<<>>, line}

\* C25: for an open TAR handler the results of any sequence of read and
\* readline calls, put together in call order, are a prefix of the member's
\* content, the lookahead buffer losing, repeating or reordering no byte; and
\* each readline result ends at the first line terminator of the unread data,
\* or at the size limit or the end of the stream, the rest being kept for the
\* next call.
C25_TarReadsArePrefix ==
  [][ReadlineStep]_vars /\ [](DeliveredInOrder /\ BufferIsLookahead)

GzipSeekEndStep ==
  (kind = "GZIP" /\ life = "open" /\ last'.op = "seek" /\ last'.whence = 2) =>
    LET target == h.size + last'.arg
        rewinds == GzipFile_seekRewinds(content, h, last'.arg, 2)
    IN target \in 0..h.size =>
         /\ PlasoFile_tell(h') = target
         /\ rewinds <=> target <= PlasoFile_tell(h)

GzipOpensAtStart ==
  (kind = "GZIP" /\ last.op = "open") => PlasoFile_tell(h) = 0

\* C26: for an open GZIP handler of discovered size S at position p, a seek
\* from the end to S + e, with 0 <= S + e <= S, leaves the position at S + e;
\* the decoder is rewound to the start only when S + e <= p and is moved
\* forward without a rewind when S + e > p.  After Open the position is 0,
\* although Open made a read.
C26_GzipSeekFromEnd == [][GzipSeekEndStep]_vars /\ []GzipOpensAtStart

\* A seek from the end that went back: the handler had been read to the end
\* and stands before it, not at the start.
C26_Witness ==
  /\ kind = "GZIP" /\ life = "open"
  /\ last.op = "seek" /\ last.whence = 2 /\ last.arg < 0
  /\ ~last.fresh
  /\ PlasoFile_tell(h) = h.size + last.arg
  /\ PlasoFile_tell(h) > 0

\* The path spec types whose handlers are opened without the cache.
PlainTypes == {"OS", "ZIP", "GZIP", "BZ2", "TAR"}

CacheFrameStep ==
  LET opening == rpc = "call"
      type == IF opening THEN chain[Len(chain)].type ELSE "none"
  IN /\ type \in PlainTypes => FsCalls(chain[Len(chain)]) = << >>
     /\ type \notin {"TSK", "VSS"} =>
          /\ cached_filesystems' = cached_filesystems
          /\ open_count' = open_count
     /\ Cardinality(DOMAIN cached_filesystems') <=
          Cardinality(DOMAIN cached_filesystems) + 1
     /\ \A k \in DOMAIN cached_filesystems :
          /\ k \in DOMAIN cached_filesystems'
          /\ cached_filesystems'[k] = cached_filesystems[k]

\* C27: opening, reading, seeking or closing a handler of type OS, ZIP, GZIP,
\* BZ2 or TAR makes no call of the filesystem cache and leaves it as it is;
\* only the Open of a TSK or VSS hop adds an entry, and it adds at most one.
C27_CacheFrame == [][CacheFrameStep]_vars

\* A volume was opened through the cache, a second chain of plain hops was
\* resolved, read and closed in part, and the cache holds the one entry.
C27_Witness ==
  /\ Cardinality(DOMAIN cached_filesystems) = 1
  /\ rpc = "returned"
  /\ chain[1].type = "OS"
  /\ Len(handlers) >= 2
  /\ closed # {}
  /\ \E i \in 1..Len(handlers) : handlers[i].h.pos > 0

\* OpenPFile raised at a hop behind the first.
RaisedAtInnerHop ==
  /\ rpc = "raised"
  /\ Len(chain) >= 2
  /\ Len(handlers) = Len(chain)
  /\ ~handlers[Len(handlers)].opened

\* C28: when the Open of hop k, k >= 2, fails while OpenPFile resolves a
\* chain, OpenPFile raises and closes nothing: the handlers it opened for hops
\* 1..k-1 are still open, and the caller receives no reference to close them
\* with.
C28_FailedHopLeaksHandlers ==
  RaisedAtInnerHop =>
    /\ \A j \in 1..(Len(handlers) - 1) :
         handlers[j].opened /\ handlers[j].h.fh
    /\ outcome.handler = 0
    /\ closed = {}

\* The Open of the third hop failed with the two hops before it open.
C28_Witness ==
  /\ RaisedAtInnerHop
  /\ Len(chain) = 3
  /\ outcome.kind = "IOError"
  /\ handlers[1].h.fh /\ handlers[2].h.fh

=============================================================================
